---- MODULE Spec2Model ----
(***************************************************************************)
(* Model of src/src/service_status.cc: the three exported operations       *)
(* serviceExists, getServiceStatus and listServices over the Windows       *)
(* service-control API.  One action per platform call of an operation,     *)
(* together with the code that follows it up to the next platform call.    *)
(* Strings are sequences of code units; handles are counted in the         *)
(* platform's handle table; the thread's last-error value is state.        *)
(***************************************************************************)
EXTENDS Integers, Sequences, FiniteSets, TLC

\* ---------------------------------------------------------------- bounds
MaxNameLen == 2
MaxServices == 2

\* ------------------------------------------------------- platform constants
ERROR_SUCCESS == 0
ERROR_ACCESS_DENIED == 5
ERROR_SERVICE_DOES_NOT_EXIST == 1060
ERROR_INVALID_NAME == 123
ERROR_INSUFFICIENT_BUFFER == 122
ERROR_MORE_DATA == 234
ERROR_SHUTDOWN_IN_PROGRESS == 1115
RPC_S_SERVER_UNAVAILABLE == 1722

SERVICE_STOPPED == 1
SERVICE_START_PENDING == 2
SERVICE_STOP_PENDING == 3
SERVICE_RUNNING == 4
SERVICE_CONTINUE_PENDING == 5
SERVICE_PAUSE_PENDING == 6
SERVICE_PAUSED == 7

\* ------------------------------------------------------------- strings
\* UTF-16 code units a caller's string is built from: NUL, 'S', e-acute.
JSChars == {0, 83, 233}

RECURSIVE SeqsUpTo(_, _)
SeqsUpTo(S, n) ==
  IF n = 0 THEN {<< >>}
  ELSE LET shorter == SeqsUpTo(S, n - 1)
       IN  shorter \cup {Append(s, c) : s \in {t \in shorter : Len(t) = n - 1}, c \in S}

JSStrings == SeqsUpTo(JSChars, MaxNameLen)

\* UTF-8 encoding of a sequence of code units below 0x800.
RECURSIVE Utf8Encode(_)
Utf8Encode(units) ==
  IF units = << >> THEN << >>
  ELSE LET c == Head(units)
       IN  (IF c < 128 THEN <<c>> ELSE <<192 + (c \div 64), 128 + (c % 64)>>)
           \o Utf8Encode(Tail(units))

\* UTF-8 decoding of a byte sequence produced by Utf8Encode.
RECURSIVE Utf8Decode(_)
Utf8Decode(bytes) ==
  IF bytes = << >> THEN << >>
  ELSE LET b == Head(bytes)
       IN  IF b < 192 \/ Len(bytes) < 2
           THEN <<b>> \o Utf8Decode(Tail(bytes))
           ELSE <<(b - 192) * 64 + (bytes[2] - 128)>> \o Utf8Decode(Tail(Tail(bytes)))

\* A NUL-terminated read: the prefix before the first NUL.
RECURSIVE CStr(_)
CStr(s) ==
  IF s = << >> \/ Head(s) = 0 THEN << >> ELSE <<Head(s)>> \o CStr(Tail(s))

\* info[0].As<Napi::String>().Utf8Value()
Utf8Value(str) == Utf8Encode(str)

\* MultiByteToWideChar(CP_UTF8, 0, nameUtf8.c_str(), -1, ...) into wname(wlen - 1)
MultiByteToWideChar(nameUtf8) == Utf8Decode(CStr(nameUtf8))

\* A WCHAR* value: NULL or a pointer to a NUL-terminated wide string.
NullW == [null |-> TRUE, s |-> << >>]
WPtr(s) == [null |-> FALSE, s |-> s]

WideToUtf8(wide) ==
  IF wide.null THEN << >> ELSE Utf8Encode(CStr(wide.s))

\* ------------------------------------------------------------- StateToString
StateToString_Shifted(state) ==
  CASE state = SERVICE_STOPPED          -> "stopped"
    [] state = SERVICE_START_PENDING    -> "start_pending"
    [] state = SERVICE_STOP_PENDING     -> "stop_pending"
    [] state = SERVICE_RUNNING          -> "running"
    [] state = SERVICE_CONTINUE_PENDING -> "continue_pending"
    [] state = SERVICE_PAUSE_PENDING    -> "paused"
    [] state = SERVICE_PAUSED           -> "paused"
    [] OTHER                            -> "not_found"

StateToString(state) ==
  CASE state = SERVICE_STOPPED          -> "stopped"
    [] state = SERVICE_START_PENDING    -> "start_pending"
    [] state = SERVICE_STOP_PENDING     -> "stop_pending"
    [] state = SERVICE_RUNNING          -> "running"
    [] state = SERVICE_CONTINUE_PENDING -> "continue_pending"
    [] state = SERVICE_PAUSE_PENDING    -> "pause_pending"
    [] state = SERVICE_PAUSED           -> "paused"
    [] OTHER                            -> "unknown"

\* ------------------------------------------------------------- the platform
\* dwCurrentState values the platform may report: the seven known codes and
\* two codes outside the known set.
StateCodes == 0 .. 8
Pids == {0, 4}

\* The services registered on the host: service name -> display name.
Registered == {<<83>>, <<83, 233>>}
DisplayNameOf(w) == IF w = <<83>> THEN WPtr(<<80, 233>>) ELSE WPtr(<< >>)

\* Error codes with which each platform call may fail.
ManagerOpenErrors == {ERROR_ACCESS_DENIED, RPC_S_SERVER_UNAVAILABLE}
ServiceOpenErrors(w) ==
  {ERROR_ACCESS_DENIED, RPC_S_SERVER_UNAVAILABLE}
    \cup (IF w = << >> THEN {ERROR_INVALID_NAME}
          ELSE IF w \notin Registered THEN {ERROR_SERVICE_DOES_NOT_EXIST} ELSE {})
StatusQueryErrors == {ERROR_ACCESS_DENIED, ERROR_SHUTDOWN_IN_PROGRESS}
ConfigFetchErrors == {ERROR_INSUFFICIENT_BUFFER, ERROR_SHUTDOWN_IN_PROGRESS}
EnumErrors == {ERROR_SHUTDOWN_IN_PROGRESS}

\* The thread's last-error value after a platform call that succeeded: the
\* platform leaves it alone or clears it.
AfterSuccess(le) == {le, ERROR_SUCCESS}

\* One entry of the ENUM_SERVICE_STATUS_PROCESSW array.
EnumRecords ==
  {[lpServiceName |-> WPtr(w), lpDisplayName |-> DisplayNameOf(w),
    dwCurrentState |-> st, dwProcessId |-> p] : w \in Registered, st \in StateCodes, p \in Pids}

\* ------------------------------------------------------------- state
VARIABLES
  pc,               \* position of the running call; "idle" when none is running
  op,               \* the operation last called
  info,             \* its arguments (Napi::CallbackInfo)
  nameUtf8, wname,  \* locals of ServiceExists / GetServiceStatus
  hSCManager, hService,
  ok, ssp, configBytes, displayName,
  bytesNeeded, servicesReturned, buf,
  lastError,        \* the thread's last-error value (GetLastError)
  retKind, retVal,  \* the value returned to the caller
  thrown,           \* the pending JavaScript exception
  log,              \* platform calls made by the call, in order
  openHandles,      \* service-control handles open in the platform
  openBefore        \* openHandles when the call began

vars == <<pc, op, info, nameUtf8, wname, hSCManager, hService, ok, ssp, configBytes,
          displayName, bytesNeeded, servicesReturned, buf, lastError, retKind, retVal,
          thrown, log, openHandles, openBefore>>

\* Argument lists a caller may pass.
JSValues ==
  {[type |-> "undefined", str |-> << >>], [type |-> "number", str |-> << >>]}
    \cup {[type |-> "string", str |-> s] : s \in JSStrings}
ArgLists == {<< >>} \cup {<<v>> : v \in JSValues}

NoThrow == [cls |-> "none", msg |-> "", name |-> << >>, code |-> 0]
ZeroSsp == [dwCurrentState |-> 0, dwProcessId |-> 0]
NoValue == [x \in {} |-> 0]

Call(c, succeeded, code) == [call |-> c, ok |-> succeeded, code |-> code]

Init ==
  /\ pc = "idle" /\ op = "none" /\ info = << >>
  /\ nameUtf8 = << >> /\ wname = << >>
  /\ hSCManager = "NULL" /\ hService = "NULL"
  /\ ok = FALSE /\ ssp = ZeroSsp /\ configBytes = 0 /\ displayName = << >>
  /\ bytesNeeded = 0 /\ servicesReturned = 0 /\ buf = << >>
  /\ lastError = ERROR_SUCCESS
  /\ retKind = "none" /\ retVal = NoValue /\ thrown = NoThrow
  /\ log = << >> /\ openHandles = 0 /\ openBefore = 0

\* ------------------------------------------------------------- shared code
\* info.Length() < 1 || !info[0].IsString()
ArgInvalid_LengthOnly(i) == Len(i) < 1

ArgInvalid(i) == Len(i) < 1 \/ i[1].type # "string"

TypeErrorNameExpected ==
  [cls |-> "TypeError", msg |-> "Service name (string) expected", name |-> << >>, code |-> 0]

\* The error thrown when OpenSCManagerW fails with err.
ManagerOpenError_NoCode(err) ==
  IF err = ERROR_ACCESS_DENIED
  THEN [cls |-> "Error", msg |-> "Access denied opening Service Control Manager",
        name |-> << >>, code |-> 0]
  ELSE [cls |-> "Error", msg |-> "Failed to open Service Control Manager (error ",
        name |-> << >>, code |-> 0]

ManagerOpenError(err) ==
  IF err = ERROR_ACCESS_DENIED
  THEN [cls |-> "Error", msg |-> "Access denied opening Service Control Manager",
        name |-> << >>, code |-> 0]
  ELSE [cls |-> "Error", msg |-> "Failed to open Service Control Manager (error ",
        name |-> << >>, code |-> err]

\* The error thrown when OpenServiceW fails with err other than "does not exist".
ServiceOpenError(name, err) ==
  IF err = ERROR_ACCESS_DENIED
  THEN [cls |-> "Error", msg |-> "Access denied opening service '", name |-> name, code |-> 0]
  ELSE [cls |-> "Error", msg |-> "Failed to open service '", name |-> name, code |-> err]

\* Entry of an operation: fresh locals, nothing returned or thrown yet.
Enter(o, i) ==
  /\ pc = "idle"
  /\ op' = o /\ info' = i
  /\ hSCManager' = "NULL" /\ hService' = "NULL"
  /\ ok' = FALSE /\ ssp' = ZeroSsp /\ configBytes' = 0 /\ displayName' = << >>
  /\ bytesNeeded' = 0 /\ servicesReturned' = 0 /\ buf' = << >>
  /\ log' = << >> /\ openBefore' = openHandles
  /\ UNCHANGED <<lastError, openHandles>>

\* The argument check and name conversion that open ServiceExists and
\* GetServiceStatus.
CheckName(i, next) ==
  IF ArgInvalid(i)
  THEN /\ thrown' = TypeErrorNameExpected
       /\ retKind' = "null" /\ retVal' = NoValue
       /\ nameUtf8' = << >> /\ wname' = << >>
       /\ pc' = "idle"
  ELSE /\ nameUtf8' = Utf8Value(i[1].str)
       /\ wname' = MultiByteToWideChar(Utf8Value(i[1].str))
       /\ thrown' = NoThrow /\ retKind' = "none" /\ retVal' = NoValue
       /\ pc' = next

\* OpenSCManagerW and the handling of its failure, the same in all three
\* operations.
OpenManager(here, next) ==
  /\ pc = here
  /\ \/ /\ hSCManager' = "open"
        /\ openHandles' = openHandles + 1
        /\ lastError' \in AfterSuccess(lastError)
        /\ log' = Append(log, Call("OpenSCManagerW", TRUE, 0))
        /\ pc' = next
        /\ UNCHANGED <<thrown, retKind, retVal>>
     \/ \E err \in ManagerOpenErrors :
          /\ lastError' = err
          /\ log' = Append(log, Call("OpenSCManagerW", FALSE, err))
          /\ thrown' = ManagerOpenError(err)
          /\ retKind' = "null" /\ retVal' = NoValue
          /\ pc' = "idle"
          /\ UNCHANGED <<hSCManager, openHandles>>
  /\ UNCHANGED <<op, info, nameUtf8, wname, hService, ok, ssp, configBytes, displayName,
                 bytesNeeded, servicesReturned, buf, openBefore>>

\* ------------------------------------------------------------- ServiceExists
ServiceExists(i) ==
  /\ Enter("serviceExists", i)
  /\ CheckName(i, "se_openmgr")

SE_OpenSCManager == OpenManager("se_openmgr", "se_opensvc")

SE_OpenService ==
  /\ pc = "se_opensvc"
  /\ \/ /\ wname \in Registered
        /\ hService' = "open"
        /\ openHandles' = openHandles + 1
        /\ lastError' \in AfterSuccess(lastError)
        /\ log' = Append(log, Call("OpenServiceW", TRUE, 0))
        /\ pc' = "se_close"
        /\ UNCHANGED <<hSCManager, thrown, retKind, retVal>>
     \/ \E err \in ServiceOpenErrors(wname) :
          /\ hSCManager' = "closed"
          /\ openHandles' = openHandles - 1
          /\ lastError' \in AfterSuccess(err)
          /\ log' = log \o <<Call("OpenServiceW", FALSE, err),
                             Call("CloseServiceHandle(hSCManager)", TRUE, 0)>>
          /\ IF err = ERROR_SERVICE_DOES_NOT_EXIST
             THEN /\ retKind' = "boolean" /\ retVal' = FALSE
                  /\ UNCHANGED thrown
             ELSE /\ thrown' = ServiceOpenError(nameUtf8, err)
                  /\ retKind' = "null" /\ retVal' = NoValue
          /\ pc' = "idle"
          /\ UNCHANGED hService
  /\ UNCHANGED <<op, info, nameUtf8, wname, ok, ssp, configBytes, displayName,
                 bytesNeeded, servicesReturned, buf, openBefore>>

SE_Close ==
  /\ pc = "se_close"
  /\ hService' = "closed" /\ hSCManager' = "closed"
  /\ openHandles' = openHandles - 2
  /\ \E le \in AfterSuccess(lastError) : lastError' \in AfterSuccess(le)
  /\ log' = log \o <<Call("CloseServiceHandle(hService)", TRUE, 0),
                     Call("CloseServiceHandle(hSCManager)", TRUE, 0)>>
  /\ retKind' = "boolean" /\ retVal' = TRUE
  /\ pc' = "idle"
  /\ UNCHANGED <<op, info, nameUtf8, wname, ok, ssp, configBytes, displayName,
                 bytesNeeded, servicesReturned, buf, thrown, openBefore>>

\* ------------------------------------------------------------- GetServiceStatus
\* The record returned for a service that is not registered.
NotFoundRecord_WithDisplayName(name) ==
  [name |-> name, exists |-> FALSE, state |-> "not_found", pid |-> 0, displayName |-> << >>]

NotFoundRecord(name) ==
  [name |-> name, exists |-> FALSE, state |-> "not_found", pid |-> 0]

\* The record returned after a successful status query.
StatusRecord(name, status, dname) ==
  [name |-> name, exists |-> TRUE, state |-> StateToString(status.dwCurrentState),
   pid |-> status.dwProcessId, displayName |-> dname]

QueryStatusError(err) ==
  [cls |-> "Error", msg |-> "QueryServiceStatusEx failed (error ", name |-> << >>, code |-> err]

GetServiceStatus(i) ==
  /\ Enter("getServiceStatus", i)
  /\ CheckName(i, "gss_openmgr")

GSS_OpenSCManager == OpenManager("gss_openmgr", "gss_opensvc")

GSS_OpenService ==
  /\ pc = "gss_opensvc"
  /\ \/ /\ wname \in Registered
        /\ hService' = "open"
        /\ openHandles' = openHandles + 1
        /\ lastError' \in AfterSuccess(lastError)
        /\ log' = Append(log, Call("OpenServiceW", TRUE, 0))
        /\ pc' = "gss_status"
        /\ UNCHANGED <<hSCManager, thrown, retKind, retVal>>
     \/ \E err \in ServiceOpenErrors(wname) :
          /\ hSCManager' = "closed"
          /\ openHandles' = openHandles - 1
          /\ lastError' \in AfterSuccess(err)
          /\ log' = log \o <<Call("OpenServiceW", FALSE, err),
                             Call("CloseServiceHandle(hSCManager)", TRUE, 0)>>
          /\ IF err = ERROR_SERVICE_DOES_NOT_EXIST
             THEN /\ retKind' = "object" /\ retVal' = NotFoundRecord(nameUtf8)
                  /\ UNCHANGED thrown
             ELSE /\ thrown' = ServiceOpenError(nameUtf8, err)
                  /\ retKind' = "null" /\ retVal' = NoValue
          /\ pc' = "idle"
          /\ UNCHANGED hService
  /\ UNCHANGED <<op, info, nameUtf8, wname, ok, ssp, configBytes, displayName,
                 bytesNeeded, servicesReturned, buf, openBefore>>

\* QueryServiceStatusEx(hService, SC_STATUS_PROCESS_INFO, &ssp, ...)
GSS_QueryStatus ==
  /\ pc = "gss_status"
  /\ \/ \E st \in StateCodes, p \in Pids :
          /\ ok' = TRUE
          /\ ssp' = [dwCurrentState |-> st, dwProcessId |-> p]
          /\ lastError' \in AfterSuccess(lastError)
          /\ log' = Append(log, Call("QueryServiceStatusEx", TRUE, 0))
     \/ \E err \in StatusQueryErrors :
          /\ ok' = FALSE
          /\ lastError' = err
          /\ log' = Append(log, Call("QueryServiceStatusEx", FALSE, err))
          /\ UNCHANGED ssp
  /\ pc' = "gss_cfgsize"
  /\ UNCHANGED <<op, info, nameUtf8, wname, hSCManager, hService, configBytes, displayName,
                 bytesNeeded, servicesReturned, buf, retKind, retVal, thrown,
                 openHandles, openBefore>>

\* QueryServiceConfigW(hService, nullptr, 0, &configBytes): the sizing call
\* never succeeds; it reports the size needed or fails outright.
GSS_QueryConfigSize ==
  /\ pc = "gss_cfgsize"
  /\ \/ /\ configBytes' = 1 + Len(DisplayNameOf(wname).s)
        /\ lastError' = ERROR_INSUFFICIENT_BUFFER
        /\ log' = Append(log, Call("QueryServiceConfigW(size)", FALSE, ERROR_INSUFFICIENT_BUFFER))
        /\ pc' = "gss_cfg"
     \/ /\ configBytes' = 0
        /\ lastError' = ERROR_SHUTDOWN_IN_PROGRESS
        /\ log' = Append(log, Call("QueryServiceConfigW(size)", FALSE, ERROR_SHUTDOWN_IN_PROGRESS))
        /\ pc' = "gss_close"
  /\ UNCHANGED <<op, info, nameUtf8, wname, hSCManager, hService, ok, ssp, displayName,
                 bytesNeeded, servicesReturned, buf, retKind, retVal, thrown,
                 openHandles, openBefore>>

\* QueryServiceConfigW(hService, pConfig, configBytes, &configBytes)
GSS_QueryConfig_Fatal ==
  /\ pc = "gss_cfg"
  /\ \/ /\ displayName' = WideToUtf8(DisplayNameOf(wname))
        /\ lastError' \in AfterSuccess(lastError)
        /\ log' = Append(log, Call("QueryServiceConfigW", TRUE, 0))
        /\ UNCHANGED ok
     \/ \E err \in ConfigFetchErrors :
          /\ ok' = FALSE
          /\ lastError' = err
          /\ log' = Append(log, Call("QueryServiceConfigW", FALSE, err))
          /\ UNCHANGED displayName
  /\ pc' = "gss_close"
  /\ UNCHANGED <<op, info, nameUtf8, wname, hSCManager, hService, ssp, configBytes,
                 bytesNeeded, servicesReturned, buf, retKind, retVal, thrown,
                 openHandles, openBefore>>

GSS_QueryConfig ==
  /\ pc = "gss_cfg"
  /\ \/ /\ displayName' = WideToUtf8(DisplayNameOf(wname))
        /\ lastError' \in AfterSuccess(lastError)
        /\ log' = Append(log, Call("QueryServiceConfigW", TRUE, 0))
     \/ \E err \in ConfigFetchErrors :
          /\ lastError' = err
          /\ log' = Append(log, Call("QueryServiceConfigW", FALSE, err))
          /\ UNCHANGED displayName
  /\ pc' = "gss_close"
  /\ UNCHANGED <<op, info, nameUtf8, wname, hSCManager, hService, ok, ssp, configBytes,
                 bytesNeeded, servicesReturned, buf, retKind, retVal, thrown,
                 openHandles, openBefore>>

\* Both handles are closed, then the outcome of the status query decides.
GSS_Close ==
  /\ pc = "gss_close"
  /\ hService' = "closed" /\ hSCManager' = "closed"
  /\ openHandles' = openHandles - 2
  /\ \E le \in AfterSuccess(lastError) : lastError' \in AfterSuccess(le)
  /\ log' = log \o <<Call("CloseServiceHandle(hService)", TRUE, 0),
                     Call("CloseServiceHandle(hSCManager)", TRUE, 0)>>
  /\ IF ~ok
     THEN /\ thrown' = QueryStatusError(lastError')
          /\ retKind' = "null" /\ retVal' = NoValue
     ELSE /\ retKind' = "object"
          /\ retVal' = StatusRecord(nameUtf8, ssp, displayName)
          /\ UNCHANGED thrown
  /\ pc' = "idle"
  /\ UNCHANGED <<op, info, nameUtf8, wname, ok, ssp, configBytes, displayName,
                 bytesNeeded, servicesReturned, buf, openBefore>>

\* ------------------------------------------------------------- ListServices
EnumLists == SeqsUpTo(EnumRecords, MaxServices)

\* The object built for one entry of the enumeration buffer.
ListRecord_NameFromDisplay(svc) ==
  [name |-> WideToUtf8(svc.lpDisplayName),
   displayName |-> WideToUtf8(svc.lpDisplayName),
   state |-> StateToString(svc.dwCurrentState),
   pid |-> svc.dwProcessId,
   exists |-> TRUE]

ListRecord(svc) ==
  [name |-> WideToUtf8(svc.lpServiceName),
   displayName |-> WideToUtf8(svc.lpDisplayName),
   state |-> StateToString(svc.dwCurrentState),
   pid |-> svc.dwProcessId,
   exists |-> TRUE]

EnumError(err) ==
  [cls |-> "Error", msg |-> "EnumServicesStatusExW failed (error ", name |-> << >>, code |-> err]

ListServices ==
  /\ Enter("listServices", << >>)
  /\ nameUtf8' = << >> /\ wname' = << >>
  /\ thrown' = NoThrow /\ retKind' = "none" /\ retVal' = NoValue
  /\ pc' = "ls_openmgr"

LS_OpenSCManager == OpenManager("ls_openmgr", "ls_enumsize")

\* The first EnumServicesStatusExW call (no buffer): reports in bytesNeeded
\* the room, counted in entries, that the services registered at that moment
\* need.  Its return value is not looked at.
LS_EnumSize ==
  /\ pc = "ls_enumsize"
  /\ \/ /\ bytesNeeded' = 0
        /\ lastError' \in AfterSuccess(lastError)
        /\ log' = Append(log, Call("EnumServicesStatusExW", TRUE, 0))
     \/ \E n \in 1 .. MaxServices :
          /\ bytesNeeded' = n
          /\ lastError' = ERROR_MORE_DATA
          /\ log' = Append(log, Call("EnumServicesStatusExW", FALSE, ERROR_MORE_DATA))
     \/ \E err \in EnumErrors :
          /\ bytesNeeded' = 0
          /\ lastError' = err
          /\ log' = Append(log, Call("EnumServicesStatusExW", FALSE, err))
  /\ pc' = "ls_enum"
  /\ UNCHANGED <<op, info, nameUtf8, wname, hSCManager, hService, ok, ssp, configBytes,
                 displayName, servicesReturned, buf, retKind, retVal, thrown,
                 openHandles, openBefore>>

\* The second EnumServicesStatusExW call into buf(bytesNeeded); the services
\* registered may have changed since the sizing call.
LS_Enum ==
  /\ pc = "ls_enum"
  /\ \/ \E list \in EnumLists :
          /\ Len(list) <= bytesNeeded
          /\ ok' = TRUE
          /\ buf' = list /\ servicesReturned' = Len(list) /\ bytesNeeded' = 0
          /\ lastError' \in AfterSuccess(lastError)
          /\ log' = Append(log, Call("EnumServicesStatusExW", TRUE, 0))
     \/ \E list \in EnumLists :
          /\ Len(list) > bytesNeeded
          /\ ok' = FALSE
          /\ buf' = SubSeq(list, 1, bytesNeeded) /\ servicesReturned' = bytesNeeded
          /\ bytesNeeded' = Len(list) - bytesNeeded
          /\ lastError' = ERROR_MORE_DATA
          /\ log' = Append(log, Call("EnumServicesStatusExW", FALSE, ERROR_MORE_DATA))
     \/ \E err \in EnumErrors :
          /\ ok' = FALSE
          /\ buf' = << >> /\ servicesReturned' = 0
          /\ lastError' = err
          /\ log' = Append(log, Call("EnumServicesStatusExW", FALSE, err))
          /\ UNCHANGED bytesNeeded
  /\ pc' = "ls_close"
  /\ UNCHANGED <<op, info, nameUtf8, wname, hSCManager, hService, ssp, configBytes,
                 displayName, retKind, retVal, thrown, openHandles, openBefore>>

\* The manager is closed, then the outcome of the second call decides.
LS_Close_LeakOnError ==
  /\ pc = "ls_close"
  /\ IF ~ok
     THEN /\ thrown' = EnumError(lastError)
          /\ retKind' = "null" /\ retVal' = NoValue
          /\ UNCHANGED <<hSCManager, openHandles, lastError, log>>
     ELSE /\ hSCManager' = "closed"
          /\ openHandles' = openHandles - 1
          /\ lastError' \in AfterSuccess(lastError)
          /\ log' = Append(log, Call("CloseServiceHandle(hSCManager)", TRUE, 0))
          /\ retKind' = "array"
          /\ retVal' = [k \in 1 .. servicesReturned |-> ListRecord(buf[k])]
          /\ UNCHANGED thrown
  /\ pc' = "idle"
  /\ UNCHANGED <<op, info, nameUtf8, wname, hService, ok, ssp, configBytes, displayName,
                 bytesNeeded, servicesReturned, buf, openBefore>>

LS_Close ==
  /\ pc = "ls_close"
  /\ hSCManager' = "closed"
  /\ openHandles' = openHandles - 1
  /\ lastError' \in AfterSuccess(lastError)
  /\ log' = Append(log, Call("CloseServiceHandle(hSCManager)", TRUE, 0))
  /\ IF ~ok
     THEN /\ thrown' = EnumError(lastError')
          /\ retKind' = "null" /\ retVal' = NoValue
     ELSE /\ retKind' = "array"
          /\ retVal' = [k \in 1 .. servicesReturned |-> ListRecord(buf[k])]
          /\ UNCHANGED thrown
  /\ pc' = "idle"
  /\ UNCHANGED <<op, info, nameUtf8, wname, hService, ok, ssp, configBytes, displayName,
                 bytesNeeded, servicesReturned, buf, openBefore>>

\* ------------------------------------------------------------- specification
Next ==
  \/ \E i \in ArgLists : ServiceExists(i)
  \/ SE_OpenSCManager
  \/ SE_OpenService
  \/ SE_Close
  \/ \E i \in ArgLists : GetServiceStatus(i)
  \/ GSS_OpenSCManager
  \/ GSS_OpenService
  \/ GSS_QueryStatus
  \/ GSS_QueryConfigSize
  \/ GSS_QueryConfig
  \/ GSS_Close
  \/ ListServices
  \/ LS_OpenSCManager
  \/ LS_EnumSize
  \/ LS_Enum
  \/ LS_Close

Spec == Init /\ [][Next]_vars

\* ------------------------------------------------------------- vocabulary
\* A call has returned to its caller.
Returned == pc = "idle" /\ op # "none"

NamedOp == op \in {"serviceExists", "getServiceStatus"}

\* Positions in the log of the calls named c.
CallsOf(c) == {k \in DOMAIN log : log[k].call = c}
Made(c, succeeded) == \E k \in CallsOf(c) : log[k].ok = succeeded
FailedWith(c, code) == \E k \in CallsOf(c) : ~log[k].ok /\ log[k].code = code

\* The error kinds of the specification, read off the thrown exception.
InvalidArgument(t) == t.cls = "TypeError"
PermissionDeniedManager(t) ==
  t.cls = "Error" /\ t.msg = "Access denied opening Service Control Manager"
PermissionDeniedService(t, name) ==
  t.cls = "Error" /\ t.msg = "Access denied opening service '" /\ t.name = name
PlatformErrorAt(t, what, code) ==
  t.cls = "Error" /\ t.msg = what /\ t.code = code

\* The state names of the specification, by platform state code.
KnownStateName ==
  (1 :> "stopped") @@ (2 :> "start_pending") @@ (3 :> "stop_pending") @@ (4 :> "running")
    @@ (5 :> "continue_pending") @@ (6 :> "pause_pending") @@ (7 :> "paused")
ExpectedStateName(code) ==
  IF code \in DOMAIN KnownStateName THEN KnownStateName[code] ELSE "unknown"

\* ------------------------------------------------------------- claims

\* C1: when an operation has returned, with a value or with an error, every
\* manager session and service handle it opened has been closed exactly once
\* and as many handles are open as before the call.
C1_NoHandleLeak ==
  Returned =>
    /\ openHandles = openBefore
    /\ hSCManager # "open" /\ hService # "open"
    /\ Cardinality(CallsOf("CloseServiceHandle(hSCManager)"))
         = Cardinality({k \in CallsOf("OpenSCManagerW") : log[k].ok})
    /\ Cardinality(CallsOf("CloseServiceHandle(hService)"))
         = Cardinality({k \in CallsOf("OpenServiceW") : log[k].ok})
    /\ Cardinality(CallsOf("CloseServiceHandle(hSCManager)")) <= 1
    /\ Cardinality(CallsOf("CloseServiceHandle(hService)")) <= 1

\* listServices has returned an error after its second enumeration call failed
\* with the manager session open.
C1_Witness ==
  /\ Returned /\ op = "listServices"
  /\ Made("OpenSCManagerW", TRUE)
  /\ thrown.cls = "Error" /\ Cardinality(CallsOf("EnumServicesStatusExW")) = 2
  /\ openHandles = openBefore

\* C2: a service that is not registered yields false from serviceExists and
\* the not-found record from getServiceStatus, without an error; a record
\* with exists=false is always the not-found record and not_found never
\* comes with exists=true.
C2_NotFoundIsData ==
  /\ (Returned /\ NamedOp /\ Made("OpenSCManagerW", TRUE)
        /\ FailedWith("OpenServiceW", ERROR_SERVICE_DOES_NOT_EXIST)) =>
       /\ thrown.cls = "none"
       /\ op = "serviceExists" => (retKind = "boolean" /\ retVal = FALSE)
       /\ op = "getServiceStatus" =>
            /\ retKind = "object"
            /\ retVal.name = Utf8Encode(info[1].str)
            /\ retVal.exists = FALSE
            /\ retVal.state = "not_found"
            /\ retVal.pid = 0
            /\ "displayName" \notin DOMAIN retVal
  /\ (Returned /\ op = "getServiceStatus" /\ retKind = "object") =>
       /\ ~retVal.exists =>
            (retVal.state = "not_found" /\ retVal.pid = 0 /\ "displayName" \notin DOMAIN retVal)
       /\ retVal.exists => retVal.state # "not_found"

\* getServiceStatus has returned the not-found record for a name that is not
\* registered.
C2_Witness ==
  /\ Returned /\ op = "getServiceStatus"
  /\ FailedWith("OpenServiceW", ERROR_SERVICE_DOES_NOT_EXIST)
  /\ retKind = "object" /\ ~retVal.exists /\ retVal.name = <<195, 169>>

\* C3: serviceExists or getServiceStatus called with no argument or with a
\* first argument that is not a string fails with InvalidArgument, and no
\* platform call is made during that call.
C3_InvalidArgumentFirst ==
  (NamedOp /\ (Len(info) = 0 \/ info[1].type # "string")) =>
    /\ pc = "idle"
    /\ InvalidArgument(thrown)
    /\ retKind = "null"
    /\ log = << >>
    /\ openHandles = openBefore

\* getServiceStatus was called with a number and threw the TypeError.
C3_Witness ==
  /\ Returned /\ op = "getServiceStatus"
  /\ Len(info) = 1 /\ info[1].type = "number"
  /\ InvalidArgument(thrown) /\ log = << >>

\* C4: serviceExists("") fails with InvalidArgument before any platform call:
\* no manager session is opened and no service open is attempted.
C4_EmptyNameRejected ==
  (op = "serviceExists" /\ Len(info) = 1 /\ info[1].type = "string" /\ info[1].str = << >>) =>
    /\ log = << >>
    /\ pc = "idle" => InvalidArgument(thrown)

\* C5: a failed manager open, and a failed service open other than
\* not-registered, makes the call fail without a result: access denied
\* yields PermissionDenied naming the manager or the named service, any other
\* failure yields PlatformError with the error code of the failed open call.
C5_OpenFailures ==
  Returned =>
    /\ \A k \in CallsOf("OpenSCManagerW") : ~log[k].ok =>
         /\ retKind = "null"
         /\ IF log[k].code = ERROR_ACCESS_DENIED
            THEN PermissionDeniedManager(thrown)
            ELSE PlatformErrorAt(thrown, "Failed to open Service Control Manager (error ",
                                 log[k].code)
    /\ \A k \in CallsOf("OpenServiceW") :
         (~log[k].ok /\ log[k].code # ERROR_SERVICE_DOES_NOT_EXIST) =>
           /\ NamedOp
           /\ retKind = "null"
           /\ IF log[k].code = ERROR_ACCESS_DENIED
              THEN PermissionDeniedService(thrown, Utf8Encode(info[1].str))
              ELSE /\ PlatformErrorAt(thrown, "Failed to open service '", log[k].code)
                   /\ thrown.name = Utf8Encode(info[1].str)

\* listServices has failed on a manager open that was not an access-denied
\* failure.
C5_Witness ==
  /\ Returned /\ op = "listServices"
  /\ FailedWith("OpenSCManagerW", RPC_S_SERVER_UNAVAILABLE)
  /\ thrown.code = RPC_S_SERVER_UNAVAILABLE /\ retKind = "null"

\* C6: in getServiceStatus a failed status query makes the call fail with a
\* PlatformError carrying the error code of that status query, whatever the
\* configuration query and the handle closes do, and no record is returned.
C6_StatusFailureCode ==
  (Returned /\ op = "getServiceStatus") =>
    \A k \in CallsOf("QueryServiceStatusEx") : ~log[k].ok =>
      /\ retKind = "null"
      /\ PlatformErrorAt(thrown, "QueryServiceStatusEx failed (error ", log[k].code)

\* C7: in getServiceStatus, when the status query succeeds and the
\* configuration query fails at either of its two calls, the call succeeds
\* with exists=true, the state and pid of the status query and an empty
\* displayName; a configuration failure never turns the call into an error.
C7_DisplayNameBestEffort ==
  (Returned /\ op = "getServiceStatus" /\ Made("QueryServiceStatusEx", TRUE)) =>
    /\ thrown.cls = "none"
    /\ retKind = "object"
    /\ ~Made("QueryServiceConfigW", TRUE) =>
         /\ retVal.exists = TRUE
         /\ retVal.name = Utf8Encode(info[1].str)
         /\ retVal.state = ExpectedStateName(ssp.dwCurrentState)
         /\ retVal.pid = ssp.dwProcessId
         /\ "displayName" \in DOMAIN retVal /\ retVal.displayName = << >>

\* getServiceStatus has returned a record for a running service although
\* the configuration fetch failed.
C7_Witness ==
  /\ Returned /\ op = "getServiceStatus"
  /\ Made("QueryServiceStatusEx", TRUE) /\ Made("QueryServiceConfigW", FALSE)
  /\ wname = <<83>>
  /\ retKind = "object" /\ retVal.state = "running" /\ retVal.pid = 4
  /\ retVal.displayName = << >>

\* C8: a successful listServices returns one record per service of the bulk
\* enumeration, in its order, each with exists=true, a state other than
\* not_found and name, displayName, state and pid of that service's bulk
\* record; no service handle is opened.
C8_ListFromBulkRecords ==
  (Returned /\ op = "listServices" /\ retKind = "array") =>
    /\ thrown.cls = "none"
    /\ servicesReturned = Len(buf)
    /\ DOMAIN retVal = 1 .. Len(buf)
    /\ \A k \in 1 .. Len(buf) :
         /\ retVal[k].exists = TRUE
         /\ retVal[k].state # "not_found"
         /\ retVal[k].name = Utf8Encode(buf[k].lpServiceName.s)
         /\ retVal[k].displayName = Utf8Encode(buf[k].lpDisplayName.s)
         /\ retVal[k].state = ExpectedStateName(buf[k].dwCurrentState)
         /\ retVal[k].pid = buf[k].dwProcessId
    /\ CallsOf("OpenServiceW") = {}

\* listServices has returned two records for two different services.
C8_Witness ==
  /\ Returned /\ op = "listServices" /\ retKind = "array"
  /\ servicesReturned = 2
  /\ retVal[1].name = <<83, 195, 169>> /\ retVal[2].name = <<83>>
  /\ retVal[2].displayName = <<80, 195, 169>>

\* C9: in listServices a failed second enumeration call makes the call fail
\* with a PlatformError carrying the error code of that call, no list is
\* returned, and at most two enumeration calls are made.
C9_EnumFailureCode ==
  /\ Cardinality(CallsOf("EnumServicesStatusExW")) <= 2
  /\ (Returned /\ op = "listServices") =>
       \A k \in CallsOf("EnumServicesStatusExW") :
         (~log[k].ok /\ \E j \in CallsOf("EnumServicesStatusExW") : j < k) =>
           /\ retKind = "null"
           /\ PlatformErrorAt(thrown, "EnumServicesStatusExW failed (error ", log[k].code)

\* C10: the state mapping is total: the seven known codes map to seven
\* distinct names, every other code maps to unknown, no code makes the call
\* fail and none maps to not_found.
C10_StateMapping ==
  /\ \A c \in StateCodes, d \in StateCodes :
       (c # d /\ c \in 1 .. 7 /\ d \in 1 .. 7) => StateToString(c) # StateToString(d)
  /\ (Returned /\ op = "getServiceStatus" /\ Made("QueryServiceStatusEx", TRUE)) =>
       /\ retKind = "object"
       /\ retVal.state = ExpectedStateName(ssp.dwCurrentState)
       /\ retVal.state # "not_found"
  /\ (Returned /\ op = "listServices" /\ Made("OpenSCManagerW", TRUE) /\ ok) =>
       /\ retKind = "array"
       /\ \A k \in 1 .. Len(buf) :
            retVal[k].state = ExpectedStateName(buf[k].dwCurrentState)

\* getServiceStatus has returned unknown for a state code outside the known
\* set.
C10_Witness ==
  /\ Returned /\ op = "getServiceStatus" /\ retKind = "object"
  /\ Made("QueryServiceStatusEx", TRUE)
  /\ ssp.dwCurrentState = 8 /\ retVal.state = "unknown"
====
